---- MODULE Spec2Model ----
(***************************************************************************)
(* The column-transform pipeline of excelutil (cmd/procexcelratios.go and  *)
(* excelutil.go): background correction, ratio transform, peak extraction  *)
(* and the peak-sorted emit loop, for the sheets of the source workbook.    *)
(*                                                                         *)
(* float64 values are exact extended rationals [n, d]:                     *)
(*   finite non-zero  n/d with d > 0 and gcd(|n|, d) = 1                    *)
(*   +0 = [0, 1]   -0 = [0, -1]   +Inf = [1, 0]   -Inf = [-1, 0]            *)
(*   NaN = [0, 0]                                                          *)
(* (the inputs are small integers, on which float64 subtraction is exact   *)
(* and float64 division keeps distinct quotients distinct and ordered).    *)
(*                                                                         *)
(* A cell's text is a record: Str(s, i) is a text that is no decimal       *)
(* number (s followed by the decimal of i: Str("cell", 2) is "cell 2"),    *)
(* Num(v) is the text strconv.FormatFloat gives for the float64 v.         *)
(***************************************************************************)
EXTENDS Integers, Sequences, FiniteSets, TLC

\* ------------------------------------------------------------------ bounds
MaxCols == 8
MaxData == 2
MaxMeta == 1
MaxTrim == 1
MaxStart == 1
MaxStop == 2
MaxRatioCols == 3
MaxRatioRows == 2
MaxSortStart == 2
MaxSortStop == 3
MaxBookRows == 1
MaxNum == 290
MaxBelow == 3
MaxKey == 2
MaxLabelRows == 3

\* ------------------------------------------------------- program constants
SKIP == 3
AlphabetLen == 26

\* ----------------------------------------------------------------- float64
Abs(x) == IF x < 0 THEN -x ELSE x

RECURSIVE Gcd(_, _)
Gcd(a, b) == IF b = 0 THEN a ELSE Gcd(b, a % b)

PosZero == [n |-> 0, d |-> 1]
NegZero == [n |-> 0, d |-> -1]
PosInf == [n |-> 1, d |-> 0]
NegInf == [n |-> -1, d |-> 0]
NaN == [n |-> 0, d |-> 0]

IsNaN(v) == v.n = 0 /\ v.d = 0
IsInf(v) == v.n # 0 /\ v.d = 0
IsZero(v) == v.n = 0 /\ v.d # 0
Sign(v) == IF v.n < 0 \/ v.d < 0 THEN -1 ELSE 1
Signed(s, v) == IF s < 0 THEN [n |-> -v.n, d |-> IF v.n = 0 THEN -v.d ELSE v.d] ELSE v

\* the float64 of the integer i
FloatOf(i) == [n |-> i, d |-> 1]

\* the float64 of the fraction a/b, b # 0, a # 0
Frac(a, b) ==
    LET g == Gcd(Abs(a), Abs(b))
        s == IF (a < 0) # (b < 0) THEN -1 ELSE 1
    IN [n |-> s * (Abs(a) \div g), d |-> Abs(b) \div g]

\* v1 - v2 of float64
FSub(a, b) ==
    IF IsNaN(a) \/ IsNaN(b) THEN NaN
    ELSE IF IsInf(a) /\ IsInf(b) THEN (IF a = b THEN NaN ELSE a)
    ELSE IF IsInf(a) THEN a
    ELSE IF IsInf(b) THEN Signed(-1, b)
    ELSE LET num == a.n * Abs(b.d) - b.n * Abs(a.d)
             den == Abs(a.d) * Abs(b.d)
         IN IF num = 0
            THEN (IF a = NegZero /\ b = PosZero THEN NegZero ELSE PosZero)
            ELSE Frac(num, den)

\* r1 / r2 of float64: the division is not guarded, x/0 is an infinity or NaN
FDiv(a, b) ==
    IF IsNaN(a) \/ IsNaN(b) THEN NaN
    ELSE IF IsInf(a) /\ IsInf(b) THEN NaN
    ELSE IF IsZero(a) /\ IsZero(b) THEN NaN
    ELSE IF IsInf(a) \/ IsZero(b) THEN Signed(Sign(a) * Sign(b), PosInf)
    ELSE IF IsZero(a) \/ IsInf(b) THEN Signed(Sign(a) * Sign(b), PosZero)
    ELSE Frac(a.n * b.d, a.d * b.n)

\* a < b of float64 (false when either is NaN; -0 and +0 are equal)
FLt(a, b) ==
    IF IsNaN(a) \/ IsNaN(b) THEN FALSE
    ELSE IF a = PosInf \/ b = NegInf THEN FALSE
    ELSE IF a = NegInf \/ b = PosInf THEN TRUE
    ELSE a.n * Abs(b.d) < b.n * Abs(a.d)

FGt(a, b) == FLt(b, a)
FGe(a, b) == ~IsNaN(a) /\ ~IsNaN(b) /\ ~FLt(a, b)

\* -------------------------------------------------------------- cell texts
Str(s, i) == [k |-> "str", s |-> s, n |-> i, d |-> 0]
Empty == Str("", 0)

\* SetCellValue of a float64: strconv.FormatFloat(v, 'f', -1, 64)
Num(v) == [k |-> "num", s |-> "", n |-> v.n, d |-> v.d]

\* (mutant) a text that is no number is read as 0, without an error
ParseFloatDefault(c) ==
    [ok |-> TRUE, v |-> IF c.k = "num" THEN [n |-> c.n, d |-> c.d] ELSE PosZero]

\* strconv.ParseFloat(cell, 64): the value, or an error for a text that is no number
ParseFloat(c) ==
    IF c.k = "num" THEN [ok |-> TRUE, v |-> [n |-> c.n, d |-> c.d]]
    ELSE [ok |-> FALSE, v |-> PosZero]

\* --------------------------------------------------------------- excelutil
\* (mutant) GetColumn without its num--
GetColumnNoDecrement(num) ==
    LET n0 == num
        run == n0 \div AlphabetLen
    IN IF n0 < 0 THEN [st |-> "panic", label |-> <<>>]
       ELSE IF n0 < 1 * AlphabetLen THEN [st |-> "ok", label |-> <<n0 + 1>>]
       ELSE IF n0 < 11 * AlphabetLen
            THEN [st |-> "ok", label |-> <<run, (n0 - run * AlphabetLen) + 1>>]
       ELSE [st |-> "fatal", label |-> <<>>]

\* GetColumn(num): the letters of the label as indices 1..26 into the alphabet;
\* log.Fatal past "JZ", a run-time panic (alphabet[-1]) for num < 1
GetColumn(num) ==
    LET n0 == num - 1
        run == n0 \div AlphabetLen
    IN IF n0 < 0 THEN [st |-> "panic", label |-> <<>>]
       ELSE IF n0 < 1 * AlphabetLen THEN [st |-> "ok", label |-> <<n0 + 1>>]
       ELSE IF n0 < 11 * AlphabetLen
            THEN [st |-> "ok", label |-> <<run, (n0 - run * AlphabetLen) + 1>>]
       ELSE [st |-> "fatal", label |-> <<>>]

Max(S) == CHOOSE x \in S : \A y \in S : y <= x
Min(S) == CHOOSE x \in S : \A y \in S : x <= y

\* ---------------------------------------------------------------- excelize
\* a sheet of an output workbook: the cells written so far, <<row, column>> -> text,
\* both 1-based
NewSheet == [x \in {} |-> Empty]

\* the 1-based column number excelize reads from the letters of a cell name
RECURSIVE TitleToNumber(_)
TitleToNumber(label) ==
    IF label = <<>> THEN 0
    ELSE TitleToNumber(SubSeq(label, 1, Len(label) - 1)) * AlphabetLen + label[Len(label)]

\* the cell name fmt.Sprintf("%s%d", GetColumn(c), row) builds
Axis(label, row) == [col |-> label, row |-> row]

SetCellValue(sheet, axis, text) ==
    LET at == <<axis.row, TitleToNumber(axis.col)>>
    IN [x \in DOMAIN sheet \cup {at} |-> IF x = at THEN text ELSE sheet[x]]

\* GetRows: the rectangle up to the last row and the last column that hold a cell,
\* "" where no cell was written; no rows for a sheet without cells
GetRows(sheet) ==
    IF DOMAIN sheet = {} THEN <<>>
    ELSE LET tr == Max({x[1] : x \in DOMAIN sheet})
             tc == Max({x[2] : x \in DOMAIN sheet})
         IN [r \in 1..tr |->
                [c \in 1..tc |-> IF <<r, c>> \in DOMAIN sheet THEN sheet[<<r, c>>] ELSE Empty]]

\* rows[r][c] of Go, 0-based
At(rows, r, c) == rows[r + 1][c + 1]
NumRows(rows) == Len(rows)
\* len(rows[0])
NumCols(rows) == Len(rows[1])

\* ------------------------------------------------------------- StartRow etc.
Marker == Str("Time (sec)", 0)

\* (mutant) the last row whose first cell is the label
StartRowLast(rows, label) ==
    LET hits == {idx \in 0..(NumRows(rows) - 1) : At(rows, idx, 0) = label}
    IN IF hits # {} THEN [id |-> Max(hits), err |-> FALSE] ELSE [id |-> 0, err |-> TRUE]

\* ExcelWorkbook.StartRow: the first row whose first cell is the label, else 0 and an error
StartRow(rows, label) ==
    LET hits == {idx \in 0..(NumRows(rows) - 1) : At(rows, idx, 0) = label}
    IN IF hits # {} THEN [id |-> Min(hits), err |-> FALSE] ELSE [id |-> 0, err |-> TRUE]

\* ExcelWorkbook.Dimensions: (rows, cols)
Dimensions(rows) == <<NumRows(rows), NumCols(rows)>>

\* ------------------------------------------------------------------- state
VARIABLES
    wb,               \* the source workbook: its sheets in the order of wb.SheetNames
    sheetNo,          \* i, the sheet loop's counter
    m,                \* the source sheet: wb.XLSX.GetRows(sheet)
    trimOutput,       \* --trimmed_output
    sortStart,        \* --start
    sortEnd,          \* --stop
    printMap,         \* --print_order
    responseThreshold, \* --threshold
    id,               \* the data-start row StartRow found (0 when it found none)
    colCounter,
    ratioCounter,
    xlsxTransformed,  \* the current sheet of the three output workbooks
    xlsxRatio,
    xlsxSorted,
    ratioToSort,      \* the work buffers of the peak search, one per ratio column
    peaks,            \* ratio column index -> peak
    tmpMap,           \* the copy of peaks the print-order loop consumes
    printed,          \* the keys the print-order loop printed, in order
    ii,               \* the emit loop's counter
    emitted,          \* the keys FindMaxElem returned to the emit loop, in order
    finished,         \* the output sheets of the source sheets processed before this one
    saved,            \* the output files SaveAs has written
    err,              \* what stopped the run: parse, offset, columns, index; "" if nothing
    sortedBefore,     \* the Sorted Matrix of the previous Peak-Sort pass over this matrix
    call,             \* the call under test when a library function is run on its own
    ret,              \* what that call returned
    pc                \* correct, guard, peaks, print, emit, done, exit, fatal (log.Fatal),
                      \* panic; call, returned

flags == <<trimOutput, sortStart, sortEnd, printMap, responseThreshold>>
book == <<wb, sheetNo, m, id>>
counters == <<colCounter, ratioCounter>>
harness == <<sortedBefore, call, ret>>

vars == <<flags, book, counters, xlsxTransformed, xlsxRatio, xlsxSorted, ratioToSort,
          peaks, tmpMap, printed, ii, emitted, finished, saved, err, harness, pc>>

Dims == Dimensions(m)

\* ------------------------------------------------------------ source sheets
Vals == {1, 2}
BgVals == {0, 2}
RatioVals == {-1, 1, 2}
Other == 7

\* a sheet: meta rows, the header row (marked "Time (sec)" or not), then nData data
\* rows whose cell in data row r (from 1), column j (from 1) is the decimal of data[<<r, j>>]
Sheet(colCount, meta, marked, nData, data) ==
    [k1 \in 1..(meta + 1 + nData) |->
        [j1 \in 1..colCount |->
            LET k == k1 - 1
                j == j1 - 1
            IN IF k < meta THEN (IF j = 0 THEN Str("meta", k) ELSE Empty)
               ELSE IF k = meta
                    THEN (IF j = 0 THEN (IF marked THEN Marker ELSE Str("t", 0))
                          ELSE Str("h", j))
               ELSE IF j = 0 THEN Num(FloatOf(k - meta))
               ELSE Num(FloatOf(data[<<k - meta, j>>]))]]

\* the sheets of Spec: every data row draws the reading of its first 340 column (x),
\* of its first 380 column (y) and of the two background columns (b2, b1); the pair
\* p = j \div 3 reads x + p and y + p
RowDraws == [x : Vals, y : Vals, b2 : BgVals, b1 : BgVals]

DrawnCell(colCount, row, j) ==
    IF j = colCount - 1 THEN row.b1
    ELSE IF j = colCount - 2 THEN row.b2
    ELSE IF j % 3 = 1 THEN row.x + (j \div 3)
    ELSE IF j % 3 = 2 THEN row.y + (j \div 3)
    ELSE Other

Sheets ==
    UNION {UNION {UNION {
        {Sheet(colCount, meta, TRUE, nData,
               [x \in (1..nData) \X (1..(colCount - 1)) |->
                   DrawnCell(colCount, v[x[1]], x[2])]) : v \in [1..nData -> RowDraws]} :
        nData \in 0..MaxData} : meta \in 0..MaxMeta} : colCount \in 1..MaxCols}

\* the sheets of SpecSort: n pairs whose 340 readings are drawn and whose 380 readings
\* are 1, over backgrounds of 0, so that the ratio column of pair p holds the drawn values
SortCell(n, v, r, j) ==
    IF j >= 3 * n THEN 0
    ELSE IF j % 3 = 1 THEN v[<<r, j \div 3>>]
    ELSE IF j % 3 = 2 THEN 1
    ELSE Other

SortSheets ==
    UNION {UNION {
        {Sheet(3 * n + 2, 0, TRUE, nData,
               [x \in (1..nData) \X (1..(3 * n + 1)) |-> SortCell(n, v, x[1], x[2])]) :
            v \in [(1..nData) \X (0..(n - 1)) -> RatioVals]} :
        nData \in 0..MaxRatioRows} : n \in 1..MaxRatioCols}

\* the default of --threshold
DefaultThreshold == Frac(6, 5)

\* no call under test: the program runs from main
NoCall == [fn |-> "main"]
NoRet == [st |-> "none"]

\* the first pass of the Peak-Sort Engine over a matrix
FirstPass == [pass |-> 1, so |-> NewSheet, order |-> <<>>]

\* the state in which the loop body of sheet number idx (from 0) of the workbook starts
SheetStart(sheets, idx) ==
    /\ wb = sheets
    /\ sheetNo = idx
    /\ m = sheets[idx + 1]
    /\ id = StartRow(sheets[idx + 1], Marker).id
    /\ colCounter = 1
    /\ ratioCounter = 1
    /\ xlsxTransformed = NewSheet
    /\ xlsxRatio = NewSheet
    /\ xlsxSorted = NewSheet
    /\ ratioToSort = <<>>
    /\ peaks = <<>>
    /\ tmpMap = <<>>
    /\ printed = <<>>
    /\ ii = 0
    /\ emitted = <<>>

\* main up to the first sheet: the flags, the workbook, no output yet
Start(books, trims, starts, stops, prints, thresholds) ==
    /\ \E b \in books : SheetStart(b, 0)
    /\ trimOutput \in trims
    /\ sortStart \in starts
    /\ sortEnd \in stops
    /\ printMap \in prints
    /\ responseThreshold \in thresholds
    /\ finished = <<>>
    /\ saved = {}
    /\ err = ""
    /\ sortedBefore = FirstPass
    /\ call = NoCall
    /\ ret = NoRet
    /\ pc = "correct"

Init ==
    Start({<<s>> : s \in Sheets}, 0..MaxTrim, 0..MaxStart, 0..MaxStop, {TRUE},
          {DefaultThreshold})

InitSort ==
    Start({<<s>> : s \in SortSheets}, {MaxRatioRows}, 0..MaxSortStart, 0..MaxSortStop,
          BOOLEAN, {DefaultThreshold})

\* ------------------------------------------------- background correction
\* what err holds after GetColumn did not return: log.Fatal past "JZ", or the panic
ErrOf(st) == IF st = "fatal" THEN "columns" ELSE "index"

\* (mutant) the skip rule one column early: 2, 5, 8, ... are skipped, 3, 6, ... kept
IsSkippedShifted(j) == (j + 1) % SKIP = 0

\* skipping unwanted column: j % SKIP == 0
IsSkipped(j) == j % SKIP = 0

\* (mutant) the two background columns exchanged
OffsetSwapped(j) ==
    IF (j + 1) % 3 = 0 THEN 2
    ELSE IF (j + 2) % 3 = 0 THEN 1
    ELSE 0

\* (mutant) the second case of the switch lost
OffsetFirstCaseOnly(j) == IF (j + 1) % 3 = 0 THEN 1 ELSE 0

\* the switch of the inner loop: which background column; 0 is its default (log.Fatal)
Offset(j) ==
    IF (j + 1) % 3 = 0 THEN 1
    ELSE IF (j + 2) % 3 = 0 THEN 2
    ELSE 0

\* whether row k of column j stops the run (the switch's default, or a cell that does
\* not parse)
CellFatal(k, j) ==
    \/ Offset(j) = 0
    \/ ~ParseFloat(At(m, k, j)).ok
    \/ ~ParseFloat(At(m, k, Dims[2] - Offset(j))).ok

\* which log.Fatal that is: the switch comes before the two ParseFloat calls
CellError(k, j) == IF Offset(j) = 0 THEN "offset" ELSE "parse"

\* v1 - v2 of row k, column j
Corrected(k, j) ==
    FSub(ParseFloat(At(m, k, j)).v, ParseFloat(At(m, k, Dims[2] - Offset(j))).v)

RECURSIVE WriteColumn(_, _, _, _, _)
\* the inner loop over k = from .. to-1 for column j: the sheet with the cells written
WriteColumn(sheet, label, j, from, to) ==
    IF from >= to THEN sheet
    ELSE WriteColumn(SetCellValue(sheet, Axis(label, (from - id) + 1), Num(Corrected(from, j))),
                     label, j, from + 1, to)

\* one iteration of the loop over j, on st = [tr, ra, cc, rc, st, err]
CorrectBody(st, j) ==
    LET cc0 == IF j = 1 THEN 1 ELSE st.cc
        rc0 == IF j = 1 THEN 1 ELSE st.rc
        col == GetColumn(cc0)
        bad == {k \in (id + 1)..(Dims[1] - 1) : CellFatal(k, j)}
        last == IF bad = {} THEN Dims[1] ELSE Min(bad)
        tr1 == SetCellValue(st.tr, Axis(col.label, 1), At(m, id, j))
        tr2 == WriteColumn(tr1, col.label, j, id + 1, last)
        rcol == GetColumn(rc0)
    IN IF IsSkipped(j) THEN [st EXCEPT !.cc = cc0, !.rc = rc0]
       ELSE IF col.st # "ok"
            THEN [st EXCEPT !.cc = cc0, !.rc = rc0, !.st = col.st, !.err = ErrOf(col.st)]
       ELSE IF bad # {}
            THEN [st EXCEPT !.tr = tr2, !.cc = cc0, !.rc = rc0, !.st = "fatal",
                            !.err = CellError(last, j)]
       ELSE IF j % 2 = 0
            THEN (IF rcol.st # "ok"
                  THEN [st EXCEPT !.tr = tr2, !.cc = cc0, !.rc = rc0, !.st = rcol.st,
                                  !.err = ErrOf(rcol.st)]
                  ELSE [tr |-> tr2,
                        ra |-> SetCellValue(st.ra, Axis(rcol.label, 1), Str("cell", rc0)),
                        cc |-> cc0 + 1, rc |-> rc0 + 1, st |-> "ok", err |-> ""])
       ELSE [st EXCEPT !.tr = tr2, !.cc = cc0 + 1, !.rc = rc0]

RECURSIVE CorrectLoop(_, _)
\* for j := 1; j < Dims[1]-2; j++
CorrectLoop(st, j) ==
    IF j >= Dims[2] - 2 \/ st.st # "ok" THEN st
    ELSE CorrectLoop(CorrectBody(st, j), j + 1)

Correct ==
    /\ pc = "correct"
    /\ LET st == CorrectLoop([tr |-> xlsxTransformed, ra |-> xlsxRatio,
                              cc |-> colCounter, rc |-> ratioCounter, st |-> "ok",
                              err |-> ""], 1)
       IN /\ xlsxTransformed' = st.tr
          /\ xlsxRatio' = st.ra
          /\ colCounter' = st.cc
          /\ ratioCounter' = st.rc
          /\ err' = st.err
          /\ pc' = IF st.st = "ok" THEN "guard" ELSE st.st
    /\ UNCHANGED <<flags, book, xlsxSorted, ratioToSort, peaks, tmpMap, printed, ii,
                   emitted, finished, saved, harness>>

\* ------------------------------------------------------------ ratio transform
\* tm := xlsxTransformed.GetRows(sheet)
tm == GetRows(xlsxTransformed)

\* tm == nil || len(tm) < 2 || len(tm[0]) < 2
IsEmptySheet(rows) ==
    IF rows = <<>> THEN TRUE
    ELSE IF NumRows(rows) < 2 THEN TRUE
    ELSE NumCols(rows) < 2

\* continue if current sheet is empty
EmptySheet ==
    /\ pc = "guard"
    /\ IsEmptySheet(tm)
    /\ pc' = "done"
    /\ UNCHANGED <<flags, book, counters, xlsxTransformed, xlsxRatio, xlsxSorted,
                   ratioToSort, peaks, tmpMap, printed, ii, emitted, finished, saved, err,
                   harness>>

\* (mutant) the trim one row early
TrimmedOneEarly(r) == r >= trimOutput

\* if r > trimOutput, stop calculating ratios
Trimmed(r) == r > trimOutput

RECURSIVE RatioRows(_, _, _, _, _)
\* the loop over r for the pair at column c of rows, on st = [ra, st, err]; rows past
\* trimOutput end the loop
RatioRows(rows, st, c, rc, r) ==
    IF r >= NumRows(rows) \/ Trimmed(r) \/ st.st # "ok" THEN st
    ELSE LET r1 == ParseFloat(At(rows, r, c))
             col == GetColumn(rc)
         IN IF ~r1.ok THEN [st EXCEPT !.st = "fatal", !.err = "parse"]
            ELSE IF c + 1 >= Len(rows[r + 1]) THEN [st EXCEPT !.st = "panic", !.err = "index"]
            ELSE IF ~ParseFloat(At(rows, r, c + 1)).ok
                 THEN [st EXCEPT !.st = "fatal", !.err = "parse"]
            ELSE IF col.st # "ok" THEN [st EXCEPT !.st = col.st, !.err = ErrOf(col.st)]
            ELSE RatioRows(rows,
                    [st EXCEPT !.ra = SetCellValue(st.ra, Axis(col.label, r + 1),
                                        Num(FDiv(r1.v, ParseFloat(At(rows, r, c + 1)).v)))],
                    c, rc, r + 1)

RECURSIVE RatioLoop(_, _, _, _)
\* for c := 0; c < len(tm[0]); c += 2, with rc++ per pair
RatioLoop(rows, st, c, rc) ==
    IF c >= NumCols(rows) \/ st.st # "ok" THEN st
    ELSE RatioLoop(rows, RatioRows(rows, st, c, rc, 1), c + 2, rc + 1)

Ratio ==
    /\ pc = "guard"
    /\ ~IsEmptySheet(tm)
    /\ LET st == RatioLoop(tm, [ra |-> xlsxRatio, st |-> "ok", err |-> ""], 0, 1)
       IN /\ xlsxRatio' = st.ra
          /\ err' = st.err
          /\ pc' = IF st.st = "ok" THEN "peaks" ELSE st.st
    /\ UNCHANGED <<flags, book, counters, xlsxTransformed, xlsxSorted, ratioToSort, peaks,
                   tmpMap, printed, ii, emitted, finished, saved, harness>>

\* ------------------------------------------------------------ peak extraction
\* ratioStrings := xlsxRatio.GetRows(sheet)
ratioStrings == GetRows(xlsxRatio)

\* check validity of stop value for search
Stop(rows) == IF sortEnd <= NumRows(rows) THEN sortEnd ELSE NumRows(rows)

\* newArr of column c: make([]float64, len(ratioStrings)), then the values of the rows
\* sortStart .. stop-1 from its front
NewArr(rows, c) ==
    [x \in 1..NumRows(rows) |->
        IF x <= Stop(rows) - sortStart
        THEN ParseFloat(At(rows, sortStart + (x - 1), c)).v
        ELSE PosZero]

\* sort.Float64s orders by Less: x < y || (isNaN(x) && !isNaN(y)); a slice of at most
\* 12 elements is sorted by insertion, which keeps equal elements in their order
Less(x, y) == FLt(x, y) \/ (IsNaN(x) /\ ~IsNaN(y))

RECURSIVE Insert(_, _)
Insert(s, x) ==
    IF s = <<>> THEN <<x>>
    ELSE IF Less(x, s[Len(s)])
         THEN Append(Insert(SubSeq(s, 1, Len(s) - 1), x), s[Len(s)])
         ELSE Append(s, x)

RECURSIVE SortFloat64s(_)
SortFloat64s(s) ==
    IF s = <<>> THEN <<>>
    ELSE Insert(SortFloat64s(SubSeq(s, 1, Len(s) - 1)), s[Len(s)])

\* peaks[i] = ratioToSort[i][len(ratioToSort[0])-1] of the sorted buffers
PeakOf(sorted, i) == sorted[i + 1][Len(sorted[1])]

\* peak extraction, and the copy of peaks into tmpMap
Peaks ==
    /\ pc = "peaks"
    /\ LET rows == ratioStrings
           n == IF rows = <<>> THEN 0 ELSE NumCols(rows)
           bad == {<<r, c>> \in (sortStart..(Stop(rows) - 1)) \X (0..(n - 1)) :
                        ~ParseFloat(At(rows, r, c)).ok}
           sorted == [c1 \in 1..n |-> SortFloat64s(NewArr(rows, c1 - 1))]
           table == [x \in 0..(n - 1) |-> PeakOf(sorted, x)]
       IN IF rows = <<>> THEN
               /\ pc' = "panic"
               /\ err' = "index"
               /\ UNCHANGED <<ratioToSort, peaks, tmpMap>>
          ELSE IF bad # {} THEN
               /\ pc' = "fatal"
               /\ err' = "parse"
               /\ UNCHANGED <<ratioToSort, peaks, tmpMap>>
          ELSE /\ ratioToSort' = sorted
               /\ peaks' = table
               /\ tmpMap' = table
               /\ pc' = IF printMap THEN "print" ELSE "emit"
               /\ err' = err
    /\ UNCHANGED <<flags, book, counters, xlsxTransformed, xlsxRatio, xlsxSorted, printed,
                   ii, emitted, finished, saved, harness>>

\* ------------------------------------------------- print-order and emit loops
\* the orders in which range may visit the keys of a map
Orders(keys) ==
    {o \in [1..Cardinality(keys) -> keys] : \A a, b \in DOMAIN o : a # b => o[a] # o[b]}

RECURSIVE FindMaxFrom(_, _, _, _)
FindMaxFrom(input, order, maxVal, index) ==
    IF order = <<>> THEN index
    ELSE LET idx == Head(order)
             val == input[idx]
         IN IF FGt(val, maxVal)
            THEN FindMaxFrom(input, Tail(order), val, idx)
            ELSE FindMaxFrom(input, Tail(order), maxVal, index)

\* FindMaxElem when range visits the keys in this order
FindMaxElem(input, order) == FindMaxFrom(input, order, PosZero, 0)

\* delete(peaks, key)
Delete(input, key) == [x \in DOMAIN input \ {key} |-> input[x]]

\* one iteration of the print-order loop: print the key FindMaxElem gives, delete it.
\* The loop is followed for one iteration more than the table has entries; a run that
\* needs more than that never leaves the loop.
PrintOrder ==
    /\ pc = "print"
    /\ DOMAIN tmpMap # {}
    /\ Len(printed) <= Len(ratioToSort)
    /\ \E order \in Orders(DOMAIN tmpMap) :
          LET key == FindMaxElem(tmpMap, order)
          IN /\ printed' = Append(printed, key)
             /\ tmpMap' = Delete(tmpMap, key)
    /\ UNCHANGED <<flags, book, counters, xlsxTransformed, xlsxRatio, xlsxSorted,
                   ratioToSort, peaks, ii, emitted, finished, saved, err, harness, pc>>

\* if len(tmpMap) == 0 { break }
PrintDone ==
    /\ pc = "print"
    /\ DOMAIN tmpMap = {}
    /\ pc' = "emit"
    /\ UNCHANGED <<flags, book, counters, xlsxTransformed, xlsxRatio, xlsxSorted,
                   ratioToSort, peaks, tmpMap, printed, ii, emitted, finished, saved, err,
                   harness>>

RECURSIVE EmitRows(_, _, _, _, _)
\* the loop over j = 0 .. len(ratioToSort[0])-1 for the column key of rows, on
\* st = [so, st, err]
EmitRows(rows, st, key, col, j) ==
    IF j >= Len(ratioToSort[1]) \/ st.st # "ok" THEN st
    ELSE LET gc == GetColumn(col)
             cell == At(rows, j, key)
         IN IF gc.st # "ok" THEN [st EXCEPT !.st = gc.st, !.err = ErrOf(gc.st)]
            ELSE IF j = 0
                 THEN EmitRows(rows, [st EXCEPT !.so = SetCellValue(st.so, Axis(gc.label, j + 1), cell)],
                               key, col, j + 1)
            ELSE IF ~ParseFloat(cell).ok THEN [st EXCEPT !.st = "fatal", !.err = "parse"]
            ELSE EmitRows(rows, [st EXCEPT !.so = SetCellValue(st.so, Axis(gc.label, j + 1),
                                                      Num(ParseFloat(cell).v))],
                          key, col, j + 1)

Emit ==
    /\ pc = "emit"
    /\ ii < Len(ratioToSort)
    /\ \E order \in Orders(DOMAIN peaks) :
          LET key == FindMaxElem(peaks, order)
              st == EmitRows(ratioStrings, [so |-> xlsxSorted, st |-> "ok", err |-> ""],
                             key, ii + 1, 0)
          IN /\ xlsxSorted' = st.so
             /\ peaks' = Delete(peaks, key)
             /\ emitted' = Append(emitted, key)
             /\ ii' = ii + 1
             /\ err' = st.err
             /\ pc' = IF st.st = "ok" THEN "emit" ELSE st.st
    /\ UNCHANGED <<flags, book, counters, xlsxTransformed, xlsxRatio, ratioToSort, tmpMap,
                   printed, finished, saved, harness>>

\* the emit loop ends: the sheet is done
SheetDone ==
    /\ pc = "emit"
    /\ ii >= Len(ratioToSort)
    /\ pc' = "done"
    /\ UNCHANGED <<flags, book, counters, xlsxTransformed, xlsxRatio, xlsxSorted,
                   ratioToSort, peaks, tmpMap, printed, ii, emitted, finished, saved, err,
                   harness>>

\* ------------------------------------------------------------- the sheet loop
\* i++ of the loop over the sheets: the next sheet starts with new output sheets of
\* its name, new counters and a new peak table
NextSheet ==
    /\ pc = "done"
    /\ sheetNo + 1 < Len(wb)
    /\ finished' = Append(finished,
                          [tr |-> xlsxTransformed, ra |-> xlsxRatio, so |-> xlsxSorted])
    /\ sheetNo' = sheetNo + 1
    /\ m' = wb[sheetNo + 2]
    /\ id' = StartRow(wb[sheetNo + 2], Marker).id
    /\ colCounter' = 1
    /\ ratioCounter' = 1
    /\ xlsxTransformed' = NewSheet
    /\ xlsxRatio' = NewSheet
    /\ xlsxSorted' = NewSheet
    /\ ratioToSort' = <<>>
    /\ peaks' = <<>>
    /\ tmpMap' = <<>>
    /\ printed' = <<>>
    /\ ii' = 0
    /\ emitted' = <<>>
    /\ pc' = "correct"
    /\ UNCHANGED <<flags, wb, saved, err, harness>>

\* the files main saves after the last sheet
OutputFiles ==
    {"transformed_data", "ratios", "sorted_ratios"}
        \cup (IF IsZero(responseThreshold) THEN {} ELSE {"data_with_threshold"})

\* save output file, after the loop over the sheets
SaveAs ==
    /\ pc = "done"
    /\ sheetNo + 1 >= Len(wb)
    /\ saved' = OutputFiles
    /\ pc' = "exit"
    /\ UNCHANGED <<flags, book, counters, xlsxTransformed, xlsxRatio, xlsxSorted,
                   ratioToSort, peaks, tmpMap, printed, ii, emitted, finished, err,
                   harness>>

\* the steps of the loop body for one sheet
Pipeline ==
    Correct \/ EmptySheet \/ Ratio \/ Peaks \/ PrintOrder \/ PrintDone \/ Emit \/ SheetDone

Next == Pipeline \/ SaveAs

Spec == Init /\ [][Next]_vars

SpecSort == InitSort /\ [][Next]_vars

\* ------------------------------------------------------ multi-sheet workbooks
\* the sheet with the text "n/a" in row k, column j
WithText(sheet, k, j) == [sheet EXCEPT ![k + 1][j + 1] = Str("n/a", 0)]

\* the sheet with a second marker label in column 0 of row k
WithMarker(sheet, k) == [sheet EXCEPT ![k + 1][1] = Marker]

\* two pairs over backgrounds of 0, one data row: the 340 readings are drawn, the 380
\* readings are 1
BookBase(meta, marked) ==
    {Sheet(8, meta, marked, 1, [x \in {1} \X (1..7) |-> SortCell(2, v, x[1], x[2])]) :
        v \in [{1} \X {0, 1} -> Vals]}

\* the sheets of the workbooks: marked and unmarked sheets, sheets with a cell that is
\* no number (in a retained column, in a background column, in a skipped column), a
\* sheet with two marker rows, a sheet without data rows, a sheet of 7 columns
BookSheets ==
    BookBase(0, TRUE) \cup BookBase(0, FALSE) \cup BookBase(1, FALSE)
        \cup {WithText(s, 1, j) : s \in BookBase(0, TRUE), j \in {2, 3, 7}}
        \cup {WithMarker(s, 0) : s \in BookBase(1, TRUE)}
        \cup {Sheet(8, 0, TRUE, 0, <<>>)}
        \cup {Sheet(7, 0, TRUE, 1, [x \in {1} \X (1..6) |-> SortCell(2, [y \in {1} \X {0, 1} |-> 1], x[1], x[2])])}

\* wb.SheetNames is filled by ranging over a map: the sheets come in any order
Books == {<<s>> : s \in BookSheets} \cup {<<s, t>> : s \in BookSheets, t \in BookSheets}

InitBook ==
    Start(Books, {MaxBookRows}, 0..MaxBookRows, {MaxBookRows + 1}, BOOLEAN,
          {PosZero, DefaultThreshold})

NextBook == Pipeline \/ NextSheet \/ SaveAs

SpecBook == InitBook /\ [][NextBook]_vars

\* --------------------------------------------- Peak-Sort on its own output
\* the Sorted Matrix is given to peak extraction and the emit loop as the Ratio Matrix
Resort ==
    /\ pc = "done"
    /\ ratioToSort # <<>>
    /\ sortedBefore.pass = 1
    /\ sortedBefore' = [pass |-> 2, so |-> xlsxSorted, order |-> emitted]
    /\ xlsxRatio' = xlsxSorted
    /\ xlsxSorted' = NewSheet
    /\ ratioToSort' = <<>>
    /\ peaks' = <<>>
    /\ tmpMap' = <<>>
    /\ printed' = <<>>
    /\ ii' = 0
    /\ emitted' = <<>>
    /\ pc' = "peaks"
    /\ UNCHANGED <<flags, book, counters, xlsxTransformed, finished, saved, err, call, ret>>

NextResort == Pipeline \/ Resort

SpecResort == InitSort /\ [][NextResort]_vars

\* ------------------------------------------------ library functions on their own
\* the arguments of the calls
Nums == (0 - MaxBelow)..MaxNum
MapVals == {FloatOf(0 - 1), PosZero, FloatOf(1), FloatOf(2)}
Maps == UNION {[keys -> MapVals] : keys \in (SUBSET (0..MaxKey)) \ {{}}}
LabelRows ==
    UNION {{[r \in 1..n |-> <<c[r]>>] : c \in [1..n -> {Marker, Str("t", 0)}]} :
              n \in 1..MaxLabelRows}

Calls ==
    {[fn |-> "GetColumn", num |-> n] : n \in Nums}
        \cup {[fn |-> "FindMaxElem", input |-> f] : f \in Maps}
        \cup {[fn |-> "StartRow", rows |-> s] : s \in LabelRows}

InitCall ==
    /\ call \in Calls
    /\ ret = NoRet
    /\ pc = "call"
    /\ wb = <<>>
    /\ sheetNo = 0
    /\ m = <<>>
    /\ id = 0
    /\ trimOutput = MaxTrim
    /\ sortStart = 0
    /\ sortEnd = MaxStop
    /\ printMap = TRUE
    /\ responseThreshold = DefaultThreshold
    /\ colCounter = 1
    /\ ratioCounter = 1
    /\ xlsxTransformed = NewSheet
    /\ xlsxRatio = NewSheet
    /\ xlsxSorted = NewSheet
    /\ ratioToSort = <<>>
    /\ peaks = <<>>
    /\ tmpMap = <<>>
    /\ printed = <<>>
    /\ ii = 0
    /\ emitted = <<>>
    /\ finished = <<>>
    /\ saved = {}
    /\ err = ""
    /\ sortedBefore = FirstPass

\* everything but the call and its result
pipelineVars ==
    <<flags, book, counters, xlsxTransformed, xlsxRatio, xlsxSorted, ratioToSort, peaks,
      tmpMap, printed, ii, emitted, finished, saved, err, sortedBefore>>

CallGetColumn ==
    /\ pc = "call"
    /\ call.fn = "GetColumn"
    /\ ret' = GetColumn(call.num)
    /\ pc' = "returned"
    /\ UNCHANGED <<pipelineVars, call>>

CallFindMaxElem ==
    /\ pc = "call"
    /\ call.fn = "FindMaxElem"
    /\ \E order \in Orders(DOMAIN call.input) :
          ret' = [st |-> "ok", index |-> FindMaxElem(call.input, order)]
    /\ pc' = "returned"
    /\ UNCHANGED <<pipelineVars, call>>

CallStartRow ==
    /\ pc = "call"
    /\ call.fn = "StartRow"
    /\ ret' = [st |-> "ok", id |-> StartRow(call.rows, Marker).id,
               err |-> StartRow(call.rows, Marker).err]
    /\ pc' = "returned"
    /\ UNCHANGED <<pipelineVars, call>>

NextCall == CallGetColumn \/ CallFindMaxElem \/ CallStartRow

SpecCall == InitCall /\ [][NextCall]_vars

\* ===================================================================== claims
rowCount == Dims[1]
colCount == Dims[2]

\* the source columns the correction loop retains, and the output column of each
Retained == {j \in 1..(colCount - 3) : j % 3 # 0}
OutCol(j) == Cardinality({x \in Retained : x <= j})

\* the correction loop has run to its end
CorrectionDone == pc \in {"guard", "peaks", "print", "emit", "done", "exit"}

\* the ratio loop has run to its end
RatioDone == pc \in {"peaks", "print", "emit"} \/ (pc \in {"done", "exit"} /\ ~IsEmptySheet(tm))

\* the emit loop has run to its end
EmitDone == pc \in {"done", "exit"} /\ ratioToSort # <<>>

CellsOf(sheet, row) == {x \in DOMAIN sheet : x[1] = row}
LastCol(sheet) == IF DOMAIN sheet = {} THEN 0 ELSE Max({x[2] : x \in DOMAIN sheet})
LastRow(sheet) == IF DOMAIN sheet = {} THEN 0 ELSE Max({x[1] : x \in DOMAIN sheet})
CellAt(sheet, row, col) == IF <<row, col>> \in DOMAIN sheet THEN sheet[<<row, col>>] ELSE Empty

\* the text of the integer i as a number
IntText(i) == [k |-> "num", s |-> "", n |-> i, d |-> 1]

\* the text of the quotient a / b of two integers, as IEEE 754 defines it
QuotText(a, b) ==
    IF b = 0
    THEN [k |-> "num", s |-> "", n |-> IF a > 0 THEN 1 ELSE IF a < 0 THEN -1 ELSE 0, d |-> 0]
    ELSE IF a = 0 THEN [k |-> "num", s |-> "", n |-> 0, d |-> IF b > 0 THEN 1 ELSE -1]
    ELSE LET den == Min({x \in 1..Abs(b) : (Abs(a) * x) % Abs(b) = 0})
             num == (Abs(a) * den) \div Abs(b)
         IN [k |-> "num", s |-> "", n |-> IF (a < 0) # (b < 0) THEN -num ELSE num, d |-> den]

\* C4: once the correction loop has ended, the header row of the Corrected Matrix is
\* exactly the source cells [dataStart][j] of the j in 1..colCount-3 with j mod 3 # 0,
\* in increasing j, in the output columns 1, 2, 3, ... without gaps: skipped columns,
\* column 0 and the last two columns give no header and consume no output column.
C4_HeaderRow ==
    CorrectionDone =>
        /\ CellsOf(xlsxTransformed, 1) = {<<1, c>> : c \in 1..Cardinality(Retained)}
        /\ \A j \in Retained :
              /\ OutCol(j) \in 1..Cardinality(Retained)
              /\ CellAt(xlsxTransformed, 1, OutCol(j)) = At(m, id, j)
        /\ \A j1, j2 \in Retained : j1 < j2 => OutCol(j1) < OutCol(j2)

C4_Witness ==
    /\ CorrectionDone
    /\ colCount = 8
    /\ id = 1
    /\ CellAt(xlsxTransformed, 1, 3) = Str("h", 4)
    /\ CellAt(xlsxTransformed, 1, 4) = Str("h", 5)

\* C5: once the correction loop has ended, for every retained column j and every
\* source row k in dataStart+1 .. rowCount-1 the Corrected Matrix cell at row
\* (k - dataStart) + 1 of j's output column is source[k][j] - source[k][colCount-1]
\* when (j+1) mod 3 = 0 and source[k][j] - source[k][colCount-2] when (j+2) mod 3 = 0;
\* where both background cells of the row are 0 it is the raw value.
C5_CorrectedValues ==
    CorrectionDone =>
        \A j \in Retained : \A k \in (id + 1)..(rowCount - 1) :
            LET bg == IF (j + 1) % 3 = 0 THEN colCount - 1 ELSE colCount - 2
                out == CellAt(xlsxTransformed, (k - id) + 1, OutCol(j))
            IN /\ ((j + 1) % 3 = 0) # ((j + 2) % 3 = 0)
               /\ out = IntText(At(m, k, j).n - At(m, k, bg).n)
               /\ (At(m, k, colCount - 1).n = 0 /\ At(m, k, colCount - 2).n = 0)
                     => out = At(m, k, j)

C5_Witness ==
    /\ CorrectionDone
    /\ colCount = 8
    /\ id = 1
    /\ rowCount = 4
    /\ At(m, 2, 6).n # At(m, 2, 7).n
    /\ At(m, 3, 6).n = 0
    /\ At(m, 3, 7).n = 0
    /\ CellAt(xlsxTransformed, 2, 4) = IntText(At(m, 2, 5).n - At(m, 2, 7).n)
    /\ CellAt(xlsxTransformed, 3, 3) = At(m, 3, 4)

\* C6: once the ratio loop has ended (the sheet passed the empty-sheet guard), for
\* each pair p and each row r in 1 .. min(lastRow, T) the Ratio Matrix cell at row
\* r+1, column p is corrected[r][2(p-1)] / corrected[r][2(p-1)+1]; no ratio is written
\* for a row r > T, rows past T end no run in an error, and the Ratio Matrix has at
\* most min(source row count, T+1) rows.
C6_RatioValues ==
    RatioDone =>
        LET last == Min({NumRows(tm) - 1, trimOutput})
        IN /\ \A p \in 1..(NumCols(tm) \div 2) : \A r \in 1..last :
                 CellAt(xlsxRatio, r + 1, p)
                    = QuotText(At(tm, r, 2 * (p - 1)).n, At(tm, r, 2 * (p - 1) + 1).n)
           /\ \A x \in DOMAIN xlsxRatio : x[1] <= trimOutput + 1
           /\ \A x \in DOMAIN xlsxRatio : x[1] >= 2 => x[2] \in 1..(NumCols(tm) \div 2)
           /\ LastRow(xlsxRatio) <= Min({rowCount, trimOutput + 1})

C6_Witness ==
    /\ RatioDone
    /\ NumRows(tm) - 1 = 2
    /\ trimOutput = 1
    /\ NumCols(tm) = 4
    /\ CellAt(xlsxRatio, 2, 2) = QuotText(At(tm, 1, 2).n, At(tm, 1, 3).n)
    /\ At(tm, 1, 3).n = 0
    /\ <<3, 1>> \notin DOMAIN xlsxRatio

\* C7: for every sheet the number of columns of the Ratio Matrix (the ratio headers of
\* the correction loop and the ratio columns of the ratio loop) is floor(n / 2), n the
\* number of columns of the Corrected Matrix, for odd n as for even n.
C7_RatioColumnCount ==
    CorrectionDone => LastCol(xlsxRatio) = LastCol(xlsxTransformed) \div 2

\* C8: a sheet whose Corrected Matrix has fewer than 2 rows or fewer than 2 columns
\* ends without error, its Ratio Matrix and its Sorted Matrix empty (no cell, no
\* header), also when it has two or more retained columns and no data row.
C8_EmptySheetOutputs ==
    (pc = "done" /\ IsEmptySheet(tm)) =>
        /\ DOMAIN xlsxRatio = {}
        /\ DOMAIN xlsxSorted = {}

\* the Peak Table as peak extraction filled it, before the emit loop consumes it
PeakTable(c) == PeakOf(ratioToSort, c)
RatioCount == Len(ratioToSort)

\* the clamped end of the peak-search window, and the ratio values of column c in it
ClampedStop == Min({sortEnd, LastRow(xlsxRatio)})
WindowVals(c) ==
    {ParseFloat(CellAt(xlsxRatio, r + 1, c + 1)).v : r \in sortStart..(ClampedStop - 1)}

\* the column i of the Sorted Matrix and the column c of the Ratio Matrix, header and rows
SortedColumn(i) == [r \in 1..LastRow(xlsxRatio) |-> CellAt(xlsxSorted, r, i)]
RatioColumn(c) == [r \in 1..LastRow(xlsxRatio) |-> CellAt(xlsxRatio, r, c)]

\* C1: when the emit loop has ended it has written as many columns as the Ratio Matrix
\* has, every ratio column index was selected exactly once, and every ratio column
\* (header and rows) is exactly one column of the Sorted Matrix, whatever the peaks,
\* zero or negative ones included.
C1_EmitIsPermutation ==
    EmitDone =>
        /\ Len(emitted) = RatioCount
        /\ LastCol(xlsxSorted) = RatioCount
        /\ \A c \in 0..(RatioCount - 1) :
              Cardinality({i \in 1..Len(emitted) : emitted[i] = c}) = 1
        /\ \A c \in 1..RatioCount :
              Cardinality({i \in 1..RatioCount : SortedColumn(i) = RatioColumn(c)}) = 1

\* C2: the peaks of the columns the emit loop selected never increase from one output
\* column to the next, for all peak values, zeros and duplicates included.
C2_DescendingPeaks ==
    \A i \in 1..(Len(emitted) - 1) :
        FGe(PeakTable(emitted[i]), PeakTable(emitted[i + 1]))

\* C3: the peak of every ratio column is the maximum of exactly its values in the rows
\* start .. min(stop, rowCount)-1: it is one of them (a negative one where all are
\* negative) and none of them is greater.
C3_PeakIsWindowMax ==
    (pc = "emit" /\ ii = 0) =>
        \A c \in DOMAIN peaks :
            WindowVals(c) # {} =>
                /\ peaks[c] \in WindowVals(c)
                /\ \A v \in WindowVals(c) : FGe(peaks[c], v)

\* C9: with an empty peak-search window (start >= min(stop, ratio rows)) peak
\* extraction ends in an error: no peak is assigned and the emit loop is not entered.
C9_EmptyWindowIsError ==
    (pc = "emit" \/ EmitDone) => sortStart < ClampedStop

\* C10: whenever several remaining columns share the greatest remaining peak, the emit
\* loop selects the one with the lowest column index (stated for a greatest peak
\* above 0, where FindMaxElem selects among the columns that hold it).
C10_LowestIndexFirst ==
    \A i \in 1..Len(emitted) :
        LET remaining == (0..(RatioCount - 1)) \ {emitted[x] : x \in 1..(i - 1)}
            top == {k \in remaining : \A k2 \in remaining : FGe(PeakTable(k), PeakTable(k2))}
        IN (Cardinality(top) >= 2 /\ \E k \in top : FGt(PeakTable(k), PosZero))
              => emitted[i] = Min(top)

\* the second pass of the Peak-Sort Engine, over its own output, has ended
SecondPassDone == sortedBefore.pass = 2 /\ pc = "done"

\* C11: applying the Peak-Sort Engine with the same window to the Sorted Matrix it
\* produced gives the columns in the same order again, so the second Sorted Matrix is
\* the first (stated for peaks without ties, where the order does not rest on the
\* order in which the map is visited).
C11_ResortIsIdentity ==
    (SecondPassDone
        /\ \A a, b \in 0..(RatioCount - 1) : a # b => PeakTable(a) # PeakTable(b))
        => xlsxSorted = sortedBefore.so

\* the last column number GetColumn has a label for
LastColumn == 11 * AlphabetLen

\* GetColumn(n) has returned
GetColumnReturned == pc = "returned" /\ call.fn = "GetColumn"

\* C12: for every n in 1..286 GetColumn(n) is the reference label: the n-th letter for
\* n <= 26; for 27 <= n <= 286 two letters, the ((n-27) div 26 + 1)-th of A..J and the
\* ((n-1) mod 26 + 1)-th of A..Z (27 is AA, 52 is AZ, 53 is BA, 286 is JZ); distinct
\* n have distinct labels.
C12_GetColumnLabels ==
    (GetColumnReturned /\ call.num \in 1..286) =>
        LET n == call.num
        IN /\ ret.st = "ok"
           /\ n <= 26 => ret.label = <<n>>
           /\ n >= 27 =>
                 /\ ret.label = <<((n - 27) \div 26) + 1, ((n - 1) % 26) + 1>>
                 /\ ret.label[1] \in 1..10
                 /\ ret.label[2] \in 1..26
           /\ n = 1 => ret.label = <<1>>
           /\ n = 26 => ret.label = <<26>>
           /\ n = 27 => ret.label = <<1, 1>>
           /\ n = 52 => ret.label = <<1, 26>>
           /\ n = 53 => ret.label = <<2, 1>>
           /\ n = 286 => ret.label = <<10, 26>>
           /\ \A n2 \in (1..286) \ {n} : GetColumn(n2).label # ret.label

C12_Witness ==
    /\ GetColumnReturned
    /\ call.num = LastColumn
    /\ ret = [st |-> "ok", label |-> <<10, 26>>]

\* C13: for every n outside 1..286, above it and below it alike, GetColumn(n) returns
\* no label and ends in the out-of-range failure the code reports with log.Fatal.
C13_OutOfRangeIsFatal ==
    (GetColumnReturned /\ call.num \notin 1..286) => ret = [st |-> "fatal", label |-> <<>>]

\* the rows of the current sheet that hold the marker label in column 0
MarkerRows == {k \in 0..(rowCount - 1) : At(m, k, 0) = Marker}

\* the text of a cell is a decimal number
IsDecimal(c) == c.k = "num"

\* a cell of the current sheet the correction loop must parse: a cell of a retained
\* column, or of that column's background column, in a row below the data-start row
MustParse(k, j) ==
    LET bg == IF (j + 1) % 3 = 0 THEN colCount - 1 ELSE colCount - 2
    IN IsDecimal(At(m, k, j)) /\ IsDecimal(At(m, k, bg))

AllParse == \A j \in Retained : \A k \in (id + 1)..(rowCount - 1) : MustParse(k, j)

\* the run has left the sheet loop without reaching its end
Aborted == pc \in {"fatal", "panic"}

\* C14: output files are saved only after every sheet of the workbook was processed to
\* its end without a fatal error; a cell of a retained column or of its background
\* column that does not parse ends the run at that cell, with no value written for it
\* and no file saved, also when sheets before it were processed to the end; peak
\* extraction is passed only if every cell of the window parses.
C14_NoOutputOnFatal ==
    /\ saved # {} =>
          /\ pc = "exit"
          /\ err = ""
          /\ sheetNo + 1 = Len(wb)
          /\ Len(finished) = Len(wb) - 1
    /\ Aborted => saved = {}
    /\ (pc # "correct" /\ ~AllParse) =>
          /\ pc = "fatal"
          /\ err = "parse"
          /\ saved = {}
          /\ \A j \in Retained : \A k \in (id + 1)..(rowCount - 1) :
                ~MustParse(k, j) => <<(k - id) + 1, OutCol(j)>> \notin DOMAIN xlsxTransformed
    /\ (pc \in {"print", "emit"} \/ EmitDone) =>
          \A r \in sortStart..(ClampedStop - 1) : \A c \in 1..LastCol(xlsxRatio) :
              IsDecimal(CellAt(xlsxRatio, r + 1, c))

C14_Witness ==
    /\ Len(wb) = 2
    /\ sheetNo = 1
    /\ Len(finished) = 1
    /\ DOMAIN finished[1].so # {}
    /\ ~AllParse
    /\ pc = "fatal"
    /\ err = "parse"
    /\ saved = {}

\* C15: StartRow gives the lowest row index whose first cell is the label; with no such
\* row it gives 0 and an error, and the run goes on with dataStart = 0: row 0 gives the
\* headers and the rows 1 .. rowCount-1 are corrected as data rows.
C15_StartRowAndMissingMarker ==
    /\ id = IF MarkerRows = {} THEN 0 ELSE Min(MarkerRows)
    /\ StartRow(m, Marker).err = (MarkerRows = {})
    /\ (MarkerRows = {} /\ AllParse /\ pc # "correct") =>
          /\ ~(pc = "fatal" /\ DOMAIN xlsxRatio = {})
          /\ \A j \in Retained :
                /\ CellAt(xlsxTransformed, 1, OutCol(j)) = At(m, 0, j)
                /\ \A k \in 1..(rowCount - 1) :
                      <<k + 1, OutCol(j)>> \in DOMAIN xlsxTransformed

C15_Witness ==
    /\ MarkerRows = {}
    /\ rowCount = 2
    /\ pc = "exit"
    /\ id = 0
    /\ CellAt(xlsxTransformed, 1, 1) = Str("h", 1)
    /\ CellAt(xlsxTransformed, 2, 1) = At(m, 1, 1)
    /\ saved # {}

\* C16: every iteration of the print-order loop and of the emit loop removes exactly
\* one entry of its table, so the entries left and the iterations made add up to the
\* number of ratio columns, and the emit loop ends with the Peak Table empty.
C16_EachIterationRemovesOne ==
    /\ pc = "print" => Cardinality(DOMAIN tmpMap) + Len(printed) = RatioCount
    /\ pc = "emit" => Cardinality(DOMAIN peaks) + Len(emitted) = RatioCount
    /\ EmitDone => DOMAIN peaks = {}

\* C17: for every non-empty map FindMaxElem returns a key of the map whose value is
\* greater than or equal to every value of the map, also without key 0 in the map and
\* with values that are all zero or negative.
C17_FindMaxElemIsArgMax ==
    (pc = "returned" /\ call.fn = "FindMaxElem") =>
        /\ ret.index \in DOMAIN call.input
        /\ \A k \in DOMAIN call.input : FGe(call.input[ret.index], call.input[k])

\* the cells the ratio loop reads: tm[r][c] and tm[r][c+1] for c = 0, 2, 4, ... below
\* len(tm[0]) and the rows r from 1 that the trim limit leaves
RatioReads ==
    UNION {{<<r, c>>, <<r, c + 1>>} :
              r \in 1..Min({NumRows(tm) - 1, trimOutput}),
              c \in {x \in 0..(NumCols(tm) - 1) : x % 2 = 0}}

\* C18: for every sheet that has passed the empty-sheet guard every cell the ratio loop
\* reads lies inside the Corrected Matrix, also with an odd number of retained columns:
\* no read is out of range.
C18_RatioReadsInBounds ==
    (pc \notin {"correct", "guard", "fatal"} /\ ~IsEmptySheet(tm)) =>
        /\ \A x \in RatioReads : x[1] < NumRows(tm) /\ x[2] < NumCols(tm)
        /\ ~(pc = "panic" /\ err = "index")

\* C19: for every retained column j exactly one of (j+1) mod 3 = 0 and (j+2) mod 3 = 0
\* holds, the background offset is 1 or 2, and no run ends in the log.Fatal of the
\* switch's default.
C19_OffsetDefaultUnreachable ==
    /\ err # "offset"
    /\ \A j \in Retained :
          /\ ((j + 1) % 3 = 0) # ((j + 2) % 3 = 0)
          /\ Offset(j) \in {1, 2}

C19_Witness ==
    /\ pc = "guard"
    /\ colCount = 8
    /\ rowCount - id = 3
    /\ err = ""
    /\ LastCol(xlsxTransformed) = 4
    /\ LastRow(xlsxTransformed) = 3

\* the output sheets of the source sheets processed so far, in the order of the workbook
Results ==
    IF pc \in {"done", "exit"}
    THEN Append(finished, [tr |-> xlsxTransformed, ra |-> xlsxRatio, so |-> xlsxSorted])
    ELSE finished

\* C20: the Corrected, Ratio and Sorted matrices of a sheet depend only on its source
\* grid and the flags, wherever the sheet stands in the workbook: two sheets of a
\* workbook with the same grid have the same three matrices.
C20_SheetResultsDependOnSheetOnly ==
    \A a, b \in DOMAIN Results : wb[a] = wb[b] => Results[a] = Results[b]

====
